---- MODULE Spec2Model ----
(***************************************************************************)
(* A state-machine model of the one-piece-viewer repository: the IndexedDB *)
(* metadata store (src/lib/db.ts), the player page and its playback        *)
(* session (src/app/player/page.tsx, src/components/video-player.tsx), the  *)
(* description sync (src/lib/file-system.ts,                               *)
(* src/components/episode-description.tsx) and the backup codec of the     *)
(* settings page.                                                          *)
(*                                                                         *)
(* Strings are modelled as sequences of tokens (a token is a TLA+ string), *)
(* so that concatenation, split("::"), lastIndexOf(".") and toLowerCase()  *)
(* are computed rather than assumed.  "" is the empty sequence.            *)
(* An object that may be null/undefined is a record or Null; an optional   *)
(* property whose value is undefined is modelled as an absent field.       *)
(***************************************************************************)
EXTENDS Integers, Sequences, FiniteSets, TLC

(* ------------------------------ bounds --------------------------------- *)

\* Largest number of entries of a scanned directory.
MaxEntries == 2
\* Largest number of episodes an arc's directory holds.
MaxEpisodes == 10
\* Largest file modification time the file system hands out.
MaxMtime == 2
\* Largest video position (video.currentTime) an event carries.
MaxTime == 1
\* Largest value of the wall clock Date.now() that is told apart.
MaxNow == 1
\* Number of clock ticks that make up the 1000 ms debounce delay.
Resolution == 2

(* --------------------------- program constants ------------------------- *)

\* setTimeout(..., 1000) of the page's handleTimeUpdate.
SaveDelayMs == 1000
\* setTimeout(..., 1000) of the video player's handleTimeUpdate.
PlayerDelayMs == 1000

(* ------------------------------ values --------------------------------- *)

Null == [null |-> TRUE]
\* resumeTime === null
NoTime == 0 - 1
\* Number.parseInt's NaN
NaN == 0 - 2

Max(a, b) == IF a >= b THEN a ELSE b

\* The length of a clock tick, and a delay in ticks.
TickMs == SaveDelayMs \div Resolution
TicksOf(ms) == (ms + TickMs - 1) \div TickMs

(* ------------------------------ strings -------------------------------- *)

\* String.prototype.split(sep) on a token string: the list of the pieces
\* between the occurrences of the separator token.
RECURSIVE Split(_, _)
Split(s, sep) ==
  IF \A i \in DOMAIN s : s[i] # sep
    THEN <<s>>
    ELSE LET i == CHOOSE j \in DOMAIN s :
                    s[j] = sep /\ \A k \in 1..(j - 1) : s[k] # sep
         IN  <<SubSeq(s, 1, i - 1)>> \o Split(SubSeq(s, i + 1, Len(s)), sep)

\* Number.parseInt of a token string: the number whose decimal text is the
\* first token, NaN when there is none.
ParseInt(s) ==
  IF s # <<>> /\ \E n \in 0..Max(MaxMtime, MaxNow) : ToString(n) = s[1]
    THEN CHOOSE n \in 0..Max(MaxMtime, MaxNow) : ToString(n) = s[1]
    ELSE NaN

\* a === b on numbers: NaN equals nothing.
StrictEq(a, b) == a # NaN /\ b # NaN /\ a = b

\* String.prototype.toLowerCase, token by token.
LowerTok(t) ==
  CASE t = "TXT" -> "txt"
    [] t = "Txt" -> "txt"
    [] t = "EP01" -> "ep01"
    [] t = "Ep01" -> "ep01"
    [] t = "EP02" -> "ep02"
    [] t = "Arc" -> "arc"
    [] t = "One" -> "one"
    [] t = "Two" -> "two"
    [] t = "ABC" -> "abc"
    [] OTHER -> t
ToLowerCase(s) == [i \in DOMAIN s |-> LowerTok(s[i])]

\* s.lastIndexOf("."), 1-based; 0 when there is no "." (JavaScript's -1).
LastIndexOfDot(s) ==
  IF \E i \in DOMAIN s : s[i] = "."
    THEN CHOOSE i \in DOMAIN s : s[i] = "." /\ \A k \in (i + 1)..Len(s) : s[k] # "."
    ELSE 0

\* name.substring(0, name.lastIndexOf(".")): substring(0, -1) is "".
BaseName(s) == SubSeq(s, 1, LastIndexOfDot(s) - 1)
\* name.substring(name.lastIndexOf(".")): substring(-1) is the whole string.
Extension(s) ==
  IF LastIndexOfDot(s) = 0 THEN s ELSE SubSeq(s, LastIndexOfDot(s), Len(s))

\* Lexicographic order of two token strings that differ at most in their
\* decimal tokens: IndexedDB orders string keys by code unit, so "10" < "2".
Digits(n) == IF n < 10 THEN <<n>> ELSE <<n \div 10, n % 10>>
DecLess(m, n) ==
  LET a == Digits(m)
      b == Digits(n)
  IN  \/ a[1] < b[1]
      \/ a[1] = b[1] /\ Len(a) < Len(b)
      \/ a[1] = b[1] /\ Len(a) = Len(b) /\ Len(a) = 2 /\ a[2] < b[2]

\* A deterministic enumeration of a finite set.
RECURSIVE SetToSeq(_)
SetToSeq(S) ==
  IF S = {} THEN <<>>
  ELSE LET x == CHOOSE y \in S : TRUE IN <<x>> \o SetToSeq(S \ {x})

(* ------------------------- identity strings ---------------------------- *)

\* `${arcId}-ep-${i + 1}` (handlePickDirectory)
EpisodeId(arcId, n) == arcId \o <<"-ep-", ToString(n)>>
\* `${arcSlug}::${episode.fileName}::${lastModified}` (loadEpisodeVideo)
StableIdOf(arcSlug, fileName, lastModified) ==
  arcSlug \o <<"::">> \o fileName \o <<"::", ToString(lastModified)>>
\* `${episode.id}-desc`
DescriptionId(episodeId) == episodeId \o <<"-desc">>
\* `file:${id}`
FileStatusId(id) == <<"file:">> \o id

(* --------------------------- the object stores ------------------------- *)

VARIABLES
  arcs,          \* object store "arcs", keyPath "id"
  episodes,      \* object store "episodes", keyPath "id"
  playback,      \* object store "playback", keyPath "episodeId"
  descriptions,  \* object store of the episode descriptions
  handleStatus,  \* object store "handleStatus", keyPath "id"
  fileHandles    \* object store "fileHandles", keyPath "id"

storeVars == <<arcs, episodes, playback, descriptions, handleStatus, fileHandles>>

\* The keyPath each object store was created with (initDB's upgrade).
ArcsKeyPath == "id"
EpisodesKeyPath == "id"
PlaybackKeyPath == "episodeId"
HandleStatusKeyPath == "id"

\* Whether IndexedDB can extract a valid key from the record (a put of a
\* record without one throws DataError).
HasKey(rec, keyPath) == keyPath \in DOMAIN rec

\* IDBObjectStore.put: the record is stored under the value of its keyPath,
\* replacing the record that had that key.
StorePut(store, keyPath, rec) ==
  [k \in (DOMAIN store) \cup {rec[keyPath]} |->
     IF k = rec[keyPath] THEN rec ELSE store[k]]

\* IDBObjectStore.get: the record under the key, undefined (Null) otherwise.
StoreGet(store, key) == IF key \in DOMAIN store THEN store[key] ELSE Null

\* IDBObjectStore.delete
StoreDelete(store, key) == [k \in (DOMAIN store) \ {key} |-> store[k]]

\* IDBObjectStore.getAll as the set of the records.
StoreAll(store) == {store[k] : k \in DOMAIN store}


(* ------------------------- the rest of the state ----------------------- *)

VARIABLES
  now,           \* Date.now(), in clock ticks
  fsRootOk,      \* whether the stored root capability still grants access
  fs,            \* the directory tree: arc directory name -> entry name -> file
  alive,         \* whether the player page is mounted (the document is open)
  arcSlug,       \* searchParams.get("arc")
  episodeIndex,  \* Number.parseInt(searchParams.get("episode") || "0")
  currentEpisode,
  stableId,
  resumeTime,
  description,
  arcHandle,     \* the arc directory capability the page holds (its name), or Null
  handleError,
  videoUrl,      \* the file the object URL was created from, "" when none
  saveTimeoutRef,     \* the page's pending debounce timer, or Null
  videoTime,          \* video.currentTime
  timeUpdateTimeout,  \* the video player's pending timer (ticks left), or NoTime
  descError,     \* the error state of EpisodeDescriptionComponent
  home,          \* the home page: "closed", "mounting" (loadArcs is waiting) or "ready"
  homeArcs,      \* the home page's arcs state (the records getArcs returned)
  readers,       \* the FileReaders that are reading a thumbnail: their episodes
  run,           \* the handlePickDirectory call that is running, or Null
  ranFull,       \* history: a discovery run has finished that enumerated the whole tree
  message,       \* the message state of the settings page
  download,      \* the backup file the last export produced, or Null
  exportedFrom,  \* history: the keyspaces the last export read
  written,       \* history: stable id -> the last progress record saved with it
  sig,           \* history: the current burst of time-update signals, or Null
  ev             \* history: the operation that ran last and its outcome

fsVars == <<fsRootOk, fs>>
pageVars == <<alive, arcSlug, episodeIndex, currentEpisode, stableId, resumeTime,
              description, arcHandle, handleError, videoUrl, saveTimeoutRef>>
playerVars == <<videoTime, timeUpdateTimeout>>
settingsVars == <<message, download, exportedFrom>>
homeVars == <<home, homeArcs, readers, run, ranFull>>
vars == <<storeVars, now, fsVars, pageVars, playerVars, descError, settingsVars,
          homeVars, written, sig, ev>>

(* ---------------------------- backup codec ----------------------------- *)

\* JSON.stringify of a record: its members, name and value, in property order.
JsonRecord(rec) ==
  LET fields == SetToSeq(DOMAIN rec)
  IN  [i \in DOMAIN fields |-> <<fields[i], rec[fields[i]]>>]
JsonArray(recs) == [i \in DOMAIN recs |-> JsonRecord(recs[i])]

\* JSON.parse of an object: a later member of the same name wins.
ParseRecord(members) ==
  [f \in {members[i][1] : i \in DOMAIN members} |->
     members[CHOOSE i \in DOMAIN members :
               members[i][1] = f /\ \A j \in (i + 1)..Len(members) : members[j][1] # f][2]]
ParseArray(texts) == [i \in DOMAIN texts |-> ParseRecord(texts[i])]

\* JSON.stringify(data, null, 2) of a bundle object: every member that is
\* defined, the arrays element by element.
ArrayMembers == {"arcs", "episodes", "playback"}
Stringify(data) ==
  LET fields == SetToSeq(DOMAIN data)
  IN  [text |-> "json",
       members |-> [i \in DOMAIN fields |->
                      IF fields[i] \in ArrayMembers
                        THEN <<fields[i], JsonArray(data[fields[i]])>>
                        ELSE <<fields[i], data[fields[i]]>>]]
\* A file whose text is not JSON.
Garbage == [text |-> "garbage"]

\* JSON.parse(text) of a bundle file (the caller has checked it is JSON).
JsonParse(file) ==
  LET obj == ParseRecord(file.members)
  IN  [f \in DOMAIN obj |-> IF f \in ArrayMembers THEN ParseArray(obj[f]) ELSE obj[f]]

\* exportMetadata: getAll of the three keyspaces.
ExportMetadataEpisodesTwice(a, e, p, t) ==
  [version |-> 1, exportedAt |-> t,
   arcs |-> SetToSeq(StoreAll(e)),
   episodes |-> SetToSeq(StoreAll(e)),
   playback |-> SetToSeq(StoreAll(p))]
ExportMetadata(a, e, p, t) ==
  [version |-> 1, exportedAt |-> t,
   arcs |-> SetToSeq(StoreAll(a)),
   episodes |-> SetToSeq(StoreAll(e)),
   playback |-> SetToSeq(StoreAll(p))]

\* One `for (const r of list) await tx.objectStore(name).put(r)` loop of
\* importMetadata.  A put whose record has no key throws DataError; nothing
\* aborts the transaction, so the puts made before the throw are committed.
RECURSIVE PutAll(_, _, _)
PutAll(store, keyPath, recs) ==
  IF recs = <<>> THEN [store |-> store, ok |-> TRUE]
  ELSE IF ~HasKey(Head(recs), keyPath) THEN [store |-> store, ok |-> FALSE]
  ELSE PutAll(StorePut(store, keyPath, Head(recs)), keyPath, Tail(recs))

\* importMetadata(data): the three loops in order; `for (... of undefined)`
\* throws TypeError when the bundle lacks the array.  The result is what the
\* transaction commits, and whether the call returned normally.
ImportMetadata(a, e, p, data) ==
  IF "arcs" \notin DOMAIN data THEN [arcs |-> a, episodes |-> e, playback |-> p, ok |-> FALSE]
  ELSE LET ra == PutAll(a, ArcsKeyPath, data.arcs) IN
  IF ~ra.ok \/ "episodes" \notin DOMAIN data
    THEN [arcs |-> ra.store, episodes |-> e, playback |-> p, ok |-> FALSE]
  ELSE LET re == PutAll(e, EpisodesKeyPath, data.episodes) IN
  IF ~re.ok \/ "playback" \notin DOMAIN data
    THEN [arcs |-> ra.store, episodes |-> re.store, playback |-> p, ok |-> FALSE]
  ELSE LET rp == PutAll(p, PlaybackKeyPath, data.playback) IN
    [arcs |-> ra.store, episodes |-> re.store, playback |-> rp.store, ok |-> rp.ok]


(* ------------------------ the library under test ------------------------ *)

\* The arc directory "Arc One" (id "arc-one") and its two video files.
ArcName == <<"Arc", " ", "One">>
ArcId == <<"arc", "-", "one">>
File1 == <<"EP01", ".", "mp4">>
File2 == <<"EP02", ".", "mp4">>

ArcRecord(displayName, order, createdAt) ==
  [id |-> ArcId, name |-> ArcName, displayName |-> displayName,
   order |-> order, createdAt |-> createdAt]
EpisodeRecord(n, fileName, createdAt) ==
  [id |-> EpisodeId(ArcId, n), arcId |-> ArcId, fileName |-> fileName,
   displayName |-> <<"Episode ", ToString(n)>>, duration |-> 0,
   order |-> n - 1, createdAt |-> createdAt]
ProgressRecord(id, episode, currentTime, lastWatched) ==
  [id |-> id, episodeId |-> episode.id, arcId |-> episode.arcId,
   currentTime |-> currentTime, duration |-> 0, lastWatched |-> lastWatched]

Episode1 == EpisodeRecord(1, File1, 0)
Episode2 == EpisodeRecord(2, File2, 0)

\* The history record of an operation: every field at its default.
NoEvent ==
  [op |-> "none", ok |-> TRUE, roundTrip |-> FALSE,
   \* a load: the cached description it found, the file's modification time,
   \* whether it looked for a sidecar, and the sidecar it found
   cached |-> Null, mtime |-> NoTime, sidecarLookup |-> FALSE, sidecar |-> Null,
   \* a load: how the verification of the root handle went ("none" when the
   \* load did not get to it), and whether the episode file's open was tried
   verify |-> "none", opened |-> FALSE,
   \* a description save: the text, whether save-to-disk was requested,
   \* whether the sidecar write was attempted and whether it succeeded
   text |-> <<>>, toFile |-> FALSE, writeTried |-> FALSE, writeOk |-> FALSE,
   \* a playback event: whether the page accepted the signal
   signalled |-> FALSE,
   \* a directory scan: the entries the enumeration delivered, and the list
   \* the scan returned
   listed |-> <<>>, out |-> <<>>]

(* ------------------------------ settings page -------------------------- *)

\* The records a user-supplied bundle may hold: well-formed ones, and ones
\* that lack the property the keyspace is keyed by.
BundleArcs ==
  { <<>>, <<ArcRecord(ArcName, 0, 0)>>, <<ArcRecord(<<"Renamed">>, 1, 1)>>,
    <<ArcRecord(ArcName, 0, 0), [name |-> ArcName]>> }
BundleEpisodes ==
  { <<>>, <<Episode1>>, <<Episode1, Episode2>>,
    <<Episode2, [arcId |-> ArcId, fileName |-> File1]>> }
BundlePlayback ==
  { <<>>,
    <<ProgressRecord(StableIdOf(ArcId, File1, 1), Episode1, 1, 1)>>,
    <<ProgressRecord(StableIdOf(ArcId, File1, 1), Episode1, 1, 1),
      ProgressRecord(StableIdOf(ArcId, File1, 2), Episode1, 2, 2),
      ProgressRecord(StableIdOf(ArcId, File2, 1), Episode2, 1, 2)>>,
    <<ProgressRecord(StableIdOf(ArcId, File2, 1), Episode2, 2, 1),
      [id |-> StableIdOf(ArcId, File1, 1), currentTime |-> 1]>> }

\* The bundle objects a backup file may hold: each of the three arrays is
\* present or not.
BundleObjects ==
  LET Opt(name, S) == {<<>>} \cup {[f \in {name} |-> x] : x \in S}
      Join(r1, r2) == [f \in (DOMAIN r1) \cup (DOMAIN r2) |->
                         IF f \in DOMAIN r1 THEN r1[f] ELSE r2[f]]
  IN  { Join([version |-> 1], Join(a, Join(e, p))) :
          a \in Opt("arcs", BundleArcs),
          e \in Opt("episodes", BundleEpisodes),
          p \in Opt("playback", BundlePlayback) }

\* The files the user may pick in the import dialog.
UploadFiles == {Garbage} \cup {Stringify(b) : b \in BundleObjects}

Keyspaces == <<arcs, episodes, playback>>

\* handleImport up to its catch: JSON.parse throws on text that is not JSON,
\* importMetadata throws as above.
ImportFile(file) ==
  IF file.text # "json"
    THEN [arcs |-> arcs, episodes |-> episodes, playback |-> playback, ok |-> FALSE]
    ELSE ImportMetadata(arcs, episodes, playback, JsonParse(file))

\* handleImport(event) with the chosen file.
ImportWith(file, isDownload) ==
  \E r \in {ImportFile(file)} :
  /\ arcs' = r.arcs
  /\ episodes' = r.episodes
  /\ playback' = r.playback
  /\ message' = [type |-> IF r.ok THEN "success" ELSE "error"]
  /\ ev' = [NoEvent EXCEPT !.op = "import", !.ok = r.ok,
                            !.roundTrip = isDownload /\ exportedFrom = Keyspaces]
  /\ UNCHANGED <<descriptions, handleStatus, fileHandles, now, fsVars, pageVars,
                 playerVars, descError, download, exportedFrom, homeVars, written, sig>>

\* The user imports a file of their own.
HandleImport(file) == ImportWith(file, FALSE)

\* The user imports the file the last export downloaded.
HandleImportDownload ==
  /\ download # Null
  /\ ImportWith(download, TRUE)

\* handleExport: the bundle of exportMetadata, stringified and downloaded.
HandleExport ==
  /\ download' = Stringify(ExportMetadata(arcs, episodes, playback, now))
  /\ exportedFrom' = Keyspaces
  /\ message' = [type |-> "success"]
  /\ ev' = [NoEvent EXCEPT !.op = "export"]
  /\ UNCHANGED <<storeVars, now, fsVars, pageVars, playerVars, descError, homeVars,
                 written, sig>>

(* ------------------------------ initial states ------------------------- *)

\* The page, player and settings state after construction (the useState and
\* useRef initial values), no document open.
InitUi ==
  /\ alive = FALSE
  /\ arcSlug = <<>>
  /\ episodeIndex = 0
  /\ currentEpisode = Null
  /\ stableId = <<>>
  /\ resumeTime = NoTime
  /\ description = Null
  /\ arcHandle = Null
  /\ handleError = Null
  /\ videoUrl = <<>>
  /\ saveTimeoutRef = Null
  /\ videoTime = 0
  /\ timeUpdateTimeout = NoTime
  /\ descError = Null
  /\ home = "closed"
  /\ homeArcs = {}
  /\ readers = {}
  /\ run = Null
  /\ ranFull = FALSE
  /\ message = Null
  /\ download = Null
  /\ exportedFrom = <<>>
  /\ written = <<>>
  /\ sig = Null
  /\ ev = NoEvent

\* A fresh database and an empty library directory.
InitBackup ==
  /\ arcs = <<>>
  /\ episodes = <<>>
  /\ playback = <<>>
  /\ descriptions = <<>>
  /\ handleStatus = <<>>
  /\ fileHandles = <<>>
  /\ now = 0
  /\ fsRootOk = TRUE
  /\ fs = <<>>
  /\ InitUi

NextBackup ==
  \/ \E file \in UploadFiles : HandleImport(file)
  \/ HandleImportDownload
  \/ HandleExport

SpecBackup == InitBackup /\ [][NextBackup]_vars


(* ------------------------------ file system ---------------------------- *)

\* FileSystemDirectoryHandle.getDirectoryHandle(name) on the stored root
\* capability: it throws when access is no longer granted or when the root
\* has no directory of that name.
CanGetDirectoryHandle(name) == fsRootOk /\ name \in DOMAIN fs

\* arcHandle.getFileHandle(name): it throws when the directory has no such
\* entry.
CanGetFileHandle(dir, name) == dir \in DOMAIN fs /\ name \in DOMAIN fs[dir]

\* findDescriptionFile: the exact `${baseName}.txt` when it exists, otherwise
\* the first entry of the directory whose base name matches without regard to
\* case and whose extension is ".txt".  The directory enumerates its entries
\* in an order of its own, so the result is one of the matching entries; Null
\* (the code's null) when there is none.
FindDescriptionFile(dir, videoFileName) ==
  LET baseName == BaseName(videoFileName)
      exact == baseName \o <<".", "txt">>
      matches == { name \in DOMAIN fs[dir] :
                     /\ ToLowerCase(BaseName(name)) = ToLowerCase(baseName)
                     /\ ToLowerCase(Extension(name)) = <<".", "txt">> }
  IN  IF CanGetFileHandle(dir, exact) THEN {fs[dir][exact]}
      ELSE IF matches = {} THEN {Null}
      ELSE {fs[dir][name] : name \in matches}

\* writeDescriptionFile's target: `${baseName}.txt`.
SidecarName(videoFileName) == BaseName(videoFileName) \o <<".", "txt">>

(* ---------------------------- store accessors -------------------------- *)

\* getArc(id)
GetArc(id) == StoreGet(arcs, id)

\* The number an episode id ends with.
IdNumber(id) == CHOOSE n \in 0..99 : ToString(n) = id[Len(id)]

\* getEpisodes(arcId): getAllFromIndex("episodes", "by-arc", arcId) returns
\* the records of the arc in the order of their primary keys, which are
\* strings.
RECURSIVE SortByKey(_)
SortByKey(S) ==
  IF S = {} THEN <<>>
  ELSE LET first == CHOOSE e \in S :
                      \A o \in S \ {e} : DecLess(IdNumber(e.id), IdNumber(o.id))
       IN  <<first>> \o SortByKey(S \ {first})
GetEpisodes(arcId) == SortByKey({e \in StoreAll(episodes) : e.arcId = arcId})

\* getPlaybackProgress(stableId): database.get("playback", stableId)
GetPlaybackProgress(id) == StoreGet(playback, id)

\* getFileHandle(id)
GetFileHandle(id) == StoreGet(fileHandles, id)

\* A saveHandleStatus that records nothing.
SaveHandleStatusSkipped(store, id, status) == store
\* saveHandleStatus(id, status) on a handleStatus store
SaveHandleStatus(store, id, status) ==
  StorePut(store, HandleStatusKeyPath, [id |-> id, status |-> status, lastVerified |-> now])

\* getDescription(episodeId): the description record of the episode.
GetDescription(episodeId) == StoreGet(descriptions, DescriptionId(episodeId))

\* saveDescription(desc) on the descriptions store.
SaveDescription(store, desc) == StorePut(store, "id", desc)

(* ------------------------------ player page ---------------------------- *)

\* loadDescription(episode, arcHandleObj, lastModified), given the file that
\* findDescriptionFile returns if it is called: the description state, the
\* descriptions store, and whether the sidecar was looked for.
LoadDescriptionNoCache(episode, lastModified, descFile) ==
  IF descFile # Null
    THEN LET desc == [id |-> DescriptionId(episode.id), episodeId |-> episode.id,
                      arcId |-> episode.arcId, fileName |-> episode.fileName,
                      text |-> descFile.text, source |-> "disk",
                      lastModified |-> lastModified, lastUpdated |-> now]
         IN  [description |-> desc, descriptions |-> SaveDescription(descriptions, desc),
              sidecarLookup |-> TRUE]
    ELSE [description |-> GetDescription(episode.id), descriptions |-> descriptions,
          sidecarLookup |-> TRUE]
LoadDescriptionStamped(episode, lastModified, descFile) ==
  LET cached == GetDescription(episode.id) IN
  IF cached # Null /\ StrictEq(cached.lastModified, lastModified)
    THEN [description |-> cached, descriptions |-> descriptions, sidecarLookup |-> FALSE]
  ELSE IF descFile # Null
    THEN LET desc == [id |-> DescriptionId(episode.id), episodeId |-> episode.id,
                      arcId |-> episode.arcId, fileName |-> episode.fileName,
                      text |-> descFile.text, source |-> "disk",
                      lastModified |-> now, lastUpdated |-> now]
         IN  [description |-> desc, descriptions |-> SaveDescription(descriptions, desc),
              sidecarLookup |-> TRUE]
    ELSE [description |-> GetDescription(episode.id), descriptions |-> descriptions,
          sidecarLookup |-> TRUE]
LoadDescription(episode, lastModified, descFile) ==
  LET cached == GetDescription(episode.id) IN
  IF cached # Null /\ StrictEq(cached.lastModified, lastModified)
    THEN [description |-> cached, descriptions |-> descriptions, sidecarLookup |-> FALSE]
  ELSE IF descFile # Null
    THEN LET desc == [id |-> DescriptionId(episode.id), episodeId |-> episode.id,
                      arcId |-> episode.arcId, fileName |-> episode.fileName,
                      text |-> descFile.text, source |-> "disk",
                      lastModified |-> lastModified, lastUpdated |-> now]
         IN  [description |-> desc, descriptions |-> SaveDescription(descriptions, desc),
              sidecarLookup |-> TRUE]
    ELSE [description |-> GetDescription(episode.id), descriptions |-> descriptions,
          sidecarLookup |-> TRUE]

\* The named errors of loadEpisodeVideo.
ErrArcInfo == [error |-> "Arc information is missing"]
ErrExpired == [error |-> "Directory access expired"]
ErrStale == [error |-> "Your directory access has expired"]
ErrNotFound(fileName) == [error |-> "Episode file not found", fileName |-> fileName]

\* What a load leaves of the page state, the stores and the history when it
\* has changed nothing but handleError: the state loadPlayerData starts from.
LoadStart(pre) ==
  [currentEpisode |-> pre.currentEpisode, arcHandle |-> pre.arcHandle,
   stableId |-> pre.stableId, videoUrl |-> pre.videoUrl,
   resumeTime |-> pre.resumeTime, description |-> pre.description,
   handleError |-> Null, handleStatus |-> handleStatus,
   descriptions |-> descriptions, ok |-> FALSE, cached |-> Null,
   mtime |-> NoTime, sidecarLookup |-> FALSE, sidecar |-> Null,
   verify |-> "none", opened |-> FALSE]

\* loadEpisodeVideo(episode, arcData, arcSlug), continuing from the state r.
LoadEpisodeVideo(r, episode, arcData, slug, descFile) ==
  IF arcData.name = <<>> THEN [r EXCEPT !.handleError = ErrArcInfo]
  ELSE IF GetFileHandle(<<"root">>) = Null THEN [r EXCEPT !.handleError = ErrExpired]
  ELSE IF ~CanGetDirectoryHandle(arcData.name)
    THEN [r EXCEPT !.handleError = ErrStale,
                   !.handleStatus = SaveHandleStatus(handleStatus, <<"root">>, "stale"),
                   !.verify = "failed"]
  ELSE IF ~CanGetFileHandle(arcData.name, episode.fileName)
    THEN [r EXCEPT !.arcHandle = arcData.name,
                   !.handleError = ErrNotFound(episode.fileName),
                   !.verify = "ok", !.opened = TRUE]
  ELSE LET lastModified == fs[arcData.name][episode.fileName].mtime
           id == StableIdOf(slug, episode.fileName, lastModified)
           progress == GetPlaybackProgress(id)
           d == LoadDescription(episode, lastModified, descFile)
       IN  [r EXCEPT !.arcHandle = arcData.name,
                     !.stableId = id,
                     !.videoUrl = <<arcData.name, episode.fileName>>,
                     !.resumeTime = IF progress # Null /\ progress.currentTime > 0
                                      THEN progress.currentTime ELSE @,
                     !.handleStatus = SaveHandleStatus(handleStatus, FileStatusId(id), "ok"),
                     !.description = d.description,
                     !.descriptions = d.descriptions,
                     !.ok = TRUE,
                     !.cached = GetDescription(episode.id),
                     !.mtime = lastModified,
                     !.sidecarLookup = d.sidecarLookup,
                     !.sidecar = IF d.sidecarLookup THEN descFile ELSE Null,
                     !.verify = "ok", !.opened = TRUE]

\* loadPlayerData() for the route (slug, idx), from the page state pre.
LoadPlayerData(pre, slug, idx, descFile) ==
  LET arcData == GetArc(slug)
      episodesData == GetEpisodes(slug)
  IN  IF arcData = Null THEN LoadStart(pre)
      ELSE IF idx + 1 > Len(episodesData) THEN LoadStart(pre)
      ELSE LoadEpisodeVideo([LoadStart(pre) EXCEPT !.currentEpisode = episodesData[idx + 1]],
                            episodesData[idx + 1], arcData, slug, descFile)

\* The sidecar files findDescriptionFile may return during a load of the
\* route; {Null} when the load does not get that far.
SidecarChoices(slug, idx) ==
  LET arcData == GetArc(slug)
      episodesData == GetEpisodes(slug)
  IN  IF arcData # Null /\ idx + 1 <= Len(episodesData)
         /\ CanGetFileHandle(arcData.name, episodesData[idx + 1].fileName)
        THEN FindDescriptionFile(arcData.name, episodesData[idx + 1].fileName)
        ELSE {Null}

\* The page state a load starts from.
PageState ==
  [currentEpisode |-> currentEpisode, arcHandle |-> arcHandle, stableId |-> stableId,
   videoUrl |-> videoUrl, resumeTime |-> resumeTime, description |-> description]
\* The page state after construction.
FreshPage ==
  [currentEpisode |-> Null, arcHandle |-> Null, stableId |-> <<>>,
   videoUrl |-> <<>>, resumeTime |-> NoTime, description |-> Null]

\* The effect of a finished load on the state: the page re-renders, the
\* video element is mounted anew (position 0, or the resume position once
\* the metadata is there) and the player's timer is gone with the old mount.
ApplyLoad(r, slug, idx) ==
  /\ alive' = TRUE
  /\ arcSlug' = slug
  /\ episodeIndex' = idx
  /\ currentEpisode' = r.currentEpisode
  /\ arcHandle' = r.arcHandle
  /\ stableId' = r.stableId
  /\ videoUrl' = r.videoUrl
  /\ resumeTime' = r.resumeTime
  /\ description' = r.description
  /\ handleError' = r.handleError
  /\ handleStatus' = r.handleStatus
  /\ descriptions' = r.descriptions
  /\ videoTime' = IF r.resumeTime > 0 THEN r.resumeTime ELSE 0
  /\ timeUpdateTimeout' = NoTime
  /\ descError' = Null
  /\ ev' = [NoEvent EXCEPT !.op = "load", !.ok = r.ok, !.cached = r.cached,
                           !.mtime = r.mtime, !.sidecarLookup = r.sidecarLookup,
                           !.sidecar = r.sidecar, !.verify = r.verify,
                           !.opened = r.opened]
  /\ UNCHANGED <<arcs, episodes, playback, fileHandles, now, fsVars, saveTimeoutRef,
                 settingsVars, homeVars, written, sig>>

\* The routes the user opens: the arc's page with an episode index.
RouteSlugs == {ArcId}
RouteIndexes == {0, 1}

\* The player page is opened in a new document: /player?arc=slug&episode=idx.
MountPlayer(slug, idx) ==
  /\ ~alive
  /\ \E descFile \in SidecarChoices(slug, idx) :
       \E r \in {LoadPlayerData(FreshPage, slug, idx, descFile)} : ApplyLoad(r, slug, idx)

\* router.push to another episode while the page stays mounted (the playlist,
\* or handleEnded's auto-play-next): the effect on [arcSlug, episodeIndex]
\* runs loadPlayerData on the state the page already has.
Navigate(slug, idx) ==
  /\ alive
  /\ <<slug, idx>> # <<arcSlug, episodeIndex>>
  /\ \E descFile \in SidecarChoices(slug, idx) :
       \E r \in {LoadPlayerData(PageState, slug, idx, descFile)} : ApplyLoad(r, slug, idx)

(* --------------------------- playback progress ------------------------- *)

\* The timer the page's handleTimeUpdate(currentTime) leaves in
\* saveTimeoutRef: clearTimeout of the pending one, then a setTimeout whose
\* callback closes over stableId, currentEpisode and currentTime.
HandleTimeUpdateKeepPending(pending, t) ==
  IF pending # Null THEN pending
  ELSE [left |-> TicksOf(SaveDelayMs), id |-> stableId, episode |-> currentEpisode,
        currentTime |-> t]
HandleTimeUpdateTimer(pending, t) ==
  [left |-> TicksOf(SaveDelayMs), id |-> stableId, episode |-> currentEpisode,
   currentTime |-> t]

\* Whether handleTimeUpdate gets past `if (!currentEpisode || !stableId) return`.
AcceptsSignal == currentEpisode # Null /\ stableId # <<>>

\* The burst history after an accepted signal: the burst goes on while a
\* timer for the same stable id is pending, and starts anew otherwise.
SignalHistory(t) ==
  IF sig # Null /\ saveTimeoutRef # Null /\ sig.id = stableId
    THEN [sig EXCEPT !.many = TRUE, !.last = t, !.age = 0]
    ELSE [id |-> stableId, episodeId |-> currentEpisode.id, first |-> t, last |-> t,
          many |-> FALSE, age |-> 0, writes |-> 0]

\* handleTimeUpdate(currentTime) of the page.
HandleTimeUpdate(t) ==
  IF AcceptsSignal
    THEN /\ saveTimeoutRef' = HandleTimeUpdateTimer(saveTimeoutRef, t)
         /\ sig' = SignalHistory(t)
    ELSE UNCHANGED <<saveTimeoutRef, sig>>

\* The video element is on the page.
PlayerMounted == alive /\ videoUrl # <<>>

PlaybackFrame ==
  UNCHANGED <<storeVars, now, fsVars, alive, arcSlug, episodeIndex, currentEpisode,
              stableId, resumeTime, description, arcHandle, handleError, videoUrl,
              descError, settingsVars, homeVars, written>>

\* The video element's "timeupdate" event at position t (playback advancing,
\* or a seek): the player's handleTimeUpdate restarts its own timer.
VideoTimeUpdate(t) ==
  /\ PlayerMounted
  /\ videoTime' = t
  /\ timeUpdateTimeout' = TicksOf(PlayerDelayMs)
  /\ ev' = NoEvent
  /\ UNCHANGED <<saveTimeoutRef, sig>>
  /\ PlaybackFrame

\* The player's timer expires: onTimeUpdate(video.currentTime).
PlayerTimerExpires ==
  /\ PlayerMounted
  /\ timeUpdateTimeout = 0
  /\ timeUpdateTimeout' = NoTime
  /\ HandleTimeUpdate(videoTime)
  /\ ev' = NoEvent
  /\ UNCHANGED videoTime
  /\ PlaybackFrame

\* The video element's "pause" event: handlePause calls onTimeUpdate.
VideoPause ==
  /\ PlayerMounted
  /\ HandleTimeUpdate(videoTime)
  /\ ev' = [NoEvent EXCEPT !.op = "pause", !.signalled = AcceptsSignal]
  /\ UNCHANGED <<videoTime, timeUpdateTimeout>>
  /\ PlaybackFrame

\* "visibilitychange" with document.hidden: handleVisibilityChange calls
\* onTimeUpdate.
VisibilityHidden ==
  /\ PlayerMounted
  /\ HandleTimeUpdate(videoTime)
  /\ ev' = [NoEvent EXCEPT !.op = "hidden", !.signalled = AcceptsSignal]
  /\ UNCHANGED <<videoTime, timeUpdateTimeout>>
  /\ PlaybackFrame

\* "beforeunload": handleBeforeUnload calls onTimeUpdate, and the document
\* goes away with its timers.
BeforeUnload ==
  /\ PlayerMounted
  /\ alive' = FALSE
  /\ saveTimeoutRef' = Null
  /\ timeUpdateTimeout' = NoTime
  /\ sig' = Null
  /\ ev' = [NoEvent EXCEPT !.op = "unload", !.signalled = AcceptsSignal]
  /\ UNCHANGED <<storeVars, now, fsVars, arcSlug, episodeIndex, currentEpisode, stableId,
                 resumeTime, description, arcHandle, handleError, videoUrl, videoTime,
                 descError, settingsVars, homeVars, written>>

\* The page's timer expires: the callback builds the progress record from
\* what it closed over and calls savePlaybackProgress.
SaveTimerExpires ==
  /\ saveTimeoutRef # Null
  /\ saveTimeoutRef.left = 0
  /\ LET progress == [id |-> saveTimeoutRef.id,
                      episodeId |-> saveTimeoutRef.episode.id,
                      arcId |-> saveTimeoutRef.episode.arcId,
                      currentTime |-> saveTimeoutRef.currentTime,
                      duration |-> 0,
                      lastWatched |-> now]
     IN  /\ playback' = StorePut(playback, PlaybackKeyPath, progress)
         /\ written' = [k \in (DOMAIN written) \cup {progress.id} |->
                          IF k = progress.id THEN progress ELSE written[k]]
  /\ saveTimeoutRef' = Null
  /\ sig' = IF sig = Null THEN Null
            ELSE [sig EXCEPT !.writes = IF @ < 2 THEN @ + 1 ELSE @]
  /\ ev' = NoEvent
  /\ UNCHANGED <<arcs, episodes, descriptions, handleStatus, fileHandles, now, fsVars,
                 alive, arcSlug, episodeIndex, currentEpisode, stableId, resumeTime,
                 description, arcHandle, handleError, videoUrl, playerVars, descError,
                 settingsVars, homeVars>>

\* One tick of time passes for the timers; a timer that is due runs first.
Tick ==
  /\ timeUpdateTimeout > 0 \/ saveTimeoutRef # Null \/ (sig # Null /\ sig.age < TicksOf(SaveDelayMs))
  /\ timeUpdateTimeout # 0
  /\ saveTimeoutRef # Null => saveTimeoutRef.left > 0
  /\ timeUpdateTimeout' = IF timeUpdateTimeout > 0 THEN timeUpdateTimeout - 1 ELSE timeUpdateTimeout
  /\ saveTimeoutRef' = IF saveTimeoutRef # Null
                         THEN [saveTimeoutRef EXCEPT !.left = @ - 1] ELSE Null
  /\ sig' = IF sig # Null /\ sig.age < TicksOf(SaveDelayMs)
              THEN [sig EXCEPT !.age = @ + 1] ELSE sig
  /\ ev' = NoEvent
  /\ UNCHANGED <<storeVars, now, fsVars, alive, arcSlug, episodeIndex, currentEpisode, stableId,
                 resumeTime, description, arcHandle, handleError, videoUrl, videoTime,
                 descError, settingsVars, homeVars, written>>

\* The video file is replaced or touched on disk: a later modification time.
TouchFile(name, m) ==
  /\ CanGetFileHandle(ArcName, name)
  /\ fs[ArcName][name].mtime < m
  /\ fs' = [fs EXCEPT ![ArcName][name].mtime = m]
  /\ ev' = NoEvent
  /\ UNCHANGED <<storeVars, now, fsRootOk, pageVars, playerVars, descError, settingsVars, homeVars,
                 written, sig>>

\* The wall clock Date.now() reads moves on.
AdvanceClock ==
  /\ now < MaxNow
  /\ now' = now + 1
  /\ ev' = NoEvent
  /\ UNCHANGED <<storeVars, fsVars, pageVars, playerVars, descError, settingsVars, homeVars,
                 written, sig>>

(* --------------------------- the progress model ------------------------ *)

VideoFile(m) == [mtime |-> m, text |-> <<>>]
RootHandle == [id |-> <<"root">>, handle |-> "root", name |-> <<"one-piece">>, savedAt |-> 0]

\* The library after discovery of the arc directory with its two episodes,
\* root access granted.
InitLibrary ==
  /\ arcs = (ArcId :> ArcRecord(ArcName, 0, 0))
  /\ episodes = (Episode1.id :> Episode1) @@ (Episode2.id :> Episode2)
  /\ playback = <<>>
  /\ descriptions = <<>>
  /\ handleStatus = <<>>
  /\ fileHandles = (<<"root">> :> RootHandle)
  /\ now = 0
  /\ fsRootOk = TRUE

InitProgress ==
  /\ InitLibrary
  /\ fs = (ArcName :> ((File1 :> VideoFile(1)) @@ (File2 :> VideoFile(1))))
  /\ InitUi

NextProgress ==
  \/ MountPlayer(ArcId, 0)
  \/ \E t \in 0..MaxTime : VideoTimeUpdate(t)
  \/ PlayerTimerExpires
  \/ VideoPause
  \/ VisibilityHidden
  \/ BeforeUnload
  \/ SaveTimerExpires
  \/ Tick
  \/ \E m \in 1..MaxMtime : TouchFile(File1, m)

SpecProgress == InitProgress /\ [][NextProgress]_vars

(* --------------------------- description sync -------------------------- *)

\* handleDescriptionSave's lastModified:
\* stableId.split("::")[2] ? Number.parseInt(stableId.split("::")[2]) : Date.now()
SaveLastModified ==
  LET parts == Split(stableId, "::")
  IN  IF Len(parts) >= 3 /\ parts[3] # <<>> THEN ParseInt(parts[3]) ELSE now

\* The record handleDescriptionSave(text, saveToFile) builds and saves.
SavedDescription(text, saveToFile) ==
  [id |-> DescriptionId(currentEpisode.id), episodeId |-> currentEpisode.id,
   arcId |-> currentEpisode.arcId, fileName |-> currentEpisode.fileName,
   text |-> text,
   source |-> IF saveToFile /\ arcHandle # Null THEN "disk" ELSE "local",
   lastModified |-> SaveLastModified, lastUpdated |-> now]

\* Whether handleDescriptionSave throws, given whether it called
\* writeDescriptionFile and what that returned.
SaveThrowsNever(writeTried, writeOk) == FALSE
SaveThrows(writeTried, writeOk) == writeTried /\ ~writeOk

\* writeDescriptionFile(arcHandle, videoFileName, content) when it succeeds:
\* `${baseName}.txt` is created if absent and holds the content.
WriteDescriptionFile(dir, videoFileName, content) ==
  [fs EXCEPT ![dir] =
     [name \in (DOMAIN fs[dir]) \cup {SidecarName(videoFileName)} |->
        IF name = SidecarName(videoFileName)
          THEN [mtime |-> now, text |-> content]
          ELSE fs[dir][name]]]

\* The error message EpisodeDescriptionComponent shows for the exception.
ErrWrite == [error |-> "Failed to write description to disk. Changes saved locally."]

\* EpisodeDescriptionComponent.handleSave(saveToFile) with the edited text:
\* onSave is the page's handleDescriptionSave(text, saveToFile).  The write
\* to disk succeeds or fails (writeOk) as the platform decides; it cannot
\* succeed without access to the directory.  "Save to Disk" is offered only
\* for a description whose source is "disk".  The page re-renders, which
\* re-runs the video player's effect and clears the player's timer.
HandleSave(text, saveToFile, writeOk) ==
  /\ alive
  /\ currentEpisode # Null
  /\ saveToFile => (description # Null /\ description.source = "disk")
  /\ LET writeTried == saveToFile /\ arcHandle # Null
         desc == SavedDescription(text, saveToFile)
     IN  /\ writeOk => (writeTried /\ fsRootOk /\ arcHandle \in DOMAIN fs)
         /\ descriptions' = SaveDescription(descriptions, desc)
         /\ description' = desc
         /\ fs' = IF writeTried /\ writeOk
                    THEN WriteDescriptionFile(arcHandle, currentEpisode.fileName, text)
                    ELSE fs
         /\ descError' = IF SaveThrows(writeTried, writeOk) THEN ErrWrite ELSE Null
         /\ ev' = [NoEvent EXCEPT !.op = "save", !.ok = ~SaveThrows(writeTried, writeOk),
                                  !.text = text, !.toFile = saveToFile,
                                  !.writeTried = writeTried, !.writeOk = writeOk]
  /\ timeUpdateTimeout' = NoTime
  /\ UNCHANGED <<arcs, episodes, playback, handleStatus, fileHandles, now, fsRootOk,
                 alive, arcSlug, episodeIndex, currentEpisode, stableId, resumeTime,
                 arcHandle, handleError, videoUrl, saveTimeoutRef, videoTime,
                 settingsVars, homeVars, written, sig>>

\* The texts a description or a sidecar file may hold.
Texts == {<<"first">>, <<"second">>}

\* The sidecar names of the first episode's file: the exact one, and one
\* that matches only without regard to case.
Sidecar1 == <<"EP01", ".", "txt">>
Sidecar1Folded == <<"ep01", ".", "TXT">>

\* A sidecar file is written, or created, outside the program.
EditSidecar(name, text) ==
  /\ ArcName \in DOMAIN fs
  /\ IF CanGetFileHandle(ArcName, name) THEN fs[ArcName][name].text # text ELSE TRUE
  /\ fs' = [fs EXCEPT ![ArcName] =
              [n \in (DOMAIN fs[ArcName]) \cup {name} |->
                 IF n = name THEN [mtime |-> now, text |-> text] ELSE fs[ArcName][n]]]
  /\ ev' = NoEvent
  /\ UNCHANGED <<storeVars, now, fsRootOk, pageVars, playerVars, descError, settingsVars, homeVars,
                 written, sig>>

\* A sidecar file is deleted outside the program.
RemoveSidecar(name) ==
  /\ CanGetFileHandle(ArcName, name)
  /\ fs' = [fs EXCEPT ![ArcName] = [n \in (DOMAIN fs[ArcName]) \ {name} |-> fs[ArcName][n]]]
  /\ ev' = NoEvent
  /\ UNCHANGED <<storeVars, now, fsRootOk, pageVars, playerVars, descError, settingsVars, homeVars,
                 written, sig>>

\* The library with the first episode's file and no sidecar yet.
InitDesc ==
  /\ InitLibrary
  /\ fs = (ArcName :> (File1 :> VideoFile(1)))
  /\ InitUi

NextDesc ==
  \/ MountPlayer(ArcId, 0)
  \/ BeforeUnload
  \/ \E text \in Texts, saveToFile \in BOOLEAN, writeOk \in BOOLEAN :
       HandleSave(text, saveToFile, writeOk)
  \/ \E name \in {Sidecar1, Sidecar1Folded}, text \in Texts : EditSidecar(name, text)
  \/ \E name \in {Sidecar1, Sidecar1Folded} : RemoveSidecar(name)
  \/ \E m \in 1..MaxMtime : TouchFile(File1, m)
  \/ AdvanceClock

SpecDesc == InitDesc /\ [][NextDesc]_vars

(* ------------------------------ C1 - C4 -------------------------------- *)

\* C1: debounce coalescing: while the signals of a burst for one stable id
\* keep arriving before the page's timer expires, no progress write is made
\* and the timer is due 1000 ms after the last signal, carrying its value;
\* once that time has passed with no further signal, exactly one
\* savePlaybackProgress write has been made for the burst, and the record in
\* the store has the currentTime of the last signal.
C1_DebounceCoalescing ==
  sig # Null =>
    /\ saveTimeoutRef # Null =>
         /\ sig.writes = 0
         /\ saveTimeoutRef.id = sig.id
         /\ saveTimeoutRef.currentTime = sig.last
         /\ saveTimeoutRef.left + sig.age = TicksOf(SaveDelayMs)
    /\ saveTimeoutRef = Null =>
         /\ sig.writes = 1
         /\ sig.age = TicksOf(SaveDelayMs)
         /\ sig.id \in DOMAIN written
         /\ written[sig.id].currentTime = sig.last
         /\ StoreGet(playback, sig.episodeId) = written[sig.id]

\* C1 witness: a burst of several signals with different values has been
\* followed by the delay, and its one write is in the store.
C1_Witness ==
  /\ sig # Null /\ sig.many /\ sig.first # sig.last
  /\ saveTimeoutRef = Null /\ sig.writes = 1
  /\ StoreGet(playback, sig.episodeId) # Null
  /\ StoreGet(playback, sig.episodeId).currentTime = sig.last

\* C2: a pause, visibility-loss or unload event bypasses the debounce timer:
\* in the state its handler leaves, the progress record of the current
\* episode is in the store with the current stable id and video position.
C2_FlushBypassesTimer ==
  (ev.op \in {"pause", "hidden", "unload"} /\ ev.signalled) =>
    /\ StoreGet(playback, currentEpisode.id) # Null
    /\ StoreGet(playback, currentEpisode.id).id = stableId
    /\ StoreGet(playback, currentEpisode.id).currentTime = videoTime

\* C3: progress is versioned by modification time: when progress records
\* have been saved for one episode under two stable ids (two modification
\* times of its file), getPlaybackProgress of each stable id returns the
\* record last saved under it.
C3_ProgressVersionedByMtime ==
  \A s1 \in DOMAIN written : \A s2 \in DOMAIN written :
    (s1 # s2 /\ written[s1].episodeId = written[s2].episodeId) =>
      /\ GetPlaybackProgress(s1) = written[s1]
      /\ GetPlaybackProgress(s2) = written[s2]

\* C4: resume: after a successful load whose stable id has a saved progress
\* record with currentTime > 0, the load has found that record under the
\* stable id and resumeTime is its currentTime.
C4_ResumeFromStoredProgress ==
  (ev.op = "load" /\ ev.ok /\ stableId \in DOMAIN written
     /\ written[stableId].currentTime > 0) =>
    /\ GetPlaybackProgress(stableId) = written[stableId]
    /\ resumeTime = written[stableId].currentTime

(* ------------------------------ C5 - C8 -------------------------------- *)

\* Whether the load that just finished found a cached description pinned to
\* the video file's current modification time.
LoadHitCache ==
  /\ ev.op = "load" /\ ev.ok
  /\ ev.cached # Null
  /\ StrictEq(ev.cached.lastModified, ev.mtime)
LoadMissedCache ==
  /\ ev.op = "load" /\ ev.ok
  /\ ~(ev.cached # Null /\ StrictEq(ev.cached.lastModified, ev.mtime))

\* C5: description cache hit.  When a load finds a cached description whose
\* lastModified equals the video file's current modification time, the page
\* uses that record verbatim, no sidecar is looked for or read, and the
\* record in the store is the same as before the load.
C5_DescriptionCacheHit ==
  LoadHitCache =>
    /\ description = ev.cached
    /\ ~ev.sidecarLookup
    /\ GetDescription(currentEpisode.id) = ev.cached

\* A cache hit while a sidecar with different content lies next to the video.
C5_Witness ==
  /\ LoadHitCache
  /\ CanGetFileHandle(ArcName, Sidecar1)
  /\ fs[ArcName][Sidecar1].text # ev.cached.text
  /\ description = ev.cached

\* C6: description disk precedence.  When a load finds no cached description,
\* or one pinned to another modification time, and a sidecar file is found
\* and read, the description used has source "disk", the sidecar's text and
\* the current modification time, and it is the episode's record in the
\* store.
C6_DescriptionDiskPrecedence ==
  (LoadMissedCache /\ ev.sidecar # Null) =>
    /\ description # Null
    /\ description.source = "disk"
    /\ description.text = ev.sidecar.text
    /\ description.lastModified = ev.mtime
    /\ GetDescription(currentEpisode.id) = description

\* A stale cached record with other text is replaced by the sidecar's text.
C6_Witness ==
  /\ LoadMissedCache
  /\ ev.sidecar # Null
  /\ ev.cached # Null
  /\ ev.cached.text # ev.sidecar.text
  /\ ev.cached.lastModified # ev.mtime
  /\ GetDescription(currentEpisode.id).text = ev.sidecar.text

\* C7: description save with a failing disk write.  When a save asked for the
\* disk and the sidecar write failed, the caller has an error to show, not a
\* success, and the cache holds the newly saved text.
C7_FailedDiskWriteIsReported ==
  (ev.op = "save" /\ ev.toFile /\ ev.writeTried /\ ~ev.writeOk) =>
    /\ ~ev.ok
    /\ descError = ErrWrite
    /\ GetDescription(currentEpisode.id) # Null
    /\ GetDescription(currentEpisode.id).text = ev.text

\* A failed write of a text other than the one the sidecar holds.
C7_Witness ==
  /\ ev.op = "save" /\ ev.toFile /\ ev.writeTried /\ ~ev.writeOk
  /\ descError = ErrWrite
  /\ CanGetFileHandle(ArcName, Sidecar1)
  /\ fs[ArcName][Sidecar1].text # ev.text
  /\ GetDescription(currentEpisode.id).text = ev.text

\* C8: a cached record with source "disk" mirrors the sidecar.  After a load
\* or a save that produced the episode's cached record, a record marked
\* source "disk" has the text of the sidecar that the operation read or
\* successfully wrote; a save whose write failed leaves no record marked
\* source "disk".
C8_DiskRecordsMirrorSidecar ==
  /\ (LoadMissedCache /\ ev.sidecar # Null) =>
       (GetDescription(currentEpisode.id).source = "disk"
          => GetDescription(currentEpisode.id).text = ev.sidecar.text)
  /\ ev.op = "save" =>
       (GetDescription(currentEpisode.id).source = "disk"
          => /\ ev.writeTried /\ ev.writeOk
             /\ CanGetFileHandle(arcHandle, SidecarName(currentEpisode.fileName))
             /\ fs[arcHandle][SidecarName(currentEpisode.fileName)].text
                  = GetDescription(currentEpisode.id).text)

(* ------------------------------ C9, C10 -------------------------------- *)

\* C9: a failed import leaves the store unchanged: whenever an import attempt
\* ends in its error branch (the text is not JSON, an array is missing, or a
\* record has no key), the arcs, episodes and playback keyspaces hold
\* exactly the records they held before the attempt.
C9_FailedImportLeavesStoreUnchanged ==
  [][(ev'.op = "import" /\ ~ev'.ok) => UNCHANGED Keyspaces]_vars

IsDigit(t) == t \in {"0", "1", "2", "3", "4", "5", "6", "7", "8", "9"}
DigitValue(t) == CHOOSE n \in 0..9 : ToString(n) = t

\* /^\d+$/.test(part)
AllDigits(part) == part # <<>> /\ \A i \in DOMAIN part : IsDigit(part[i])

\* Number.parseInt of a run of digits.
RECURSIVE ParseDigits(_)
ParseDigits(part) ==
  IF part = <<>> THEN 0
  ELSE ParseDigits(SubSeq(part, 1, Len(part) - 1)) * 10 + DigitValue(part[Len(part)])

\* name.split(/(\d+)/).filter(Boolean): the maximal runs of digits and of
\* other characters, in order.
RECURSIVE SplitDigits(_)
SplitDigits(s) ==
  IF s = <<>> THEN <<>>
  ELSE LET n == CHOOSE k \in 1..Len(s) :
                  /\ \A i \in 1..k : IsDigit(s[i]) = IsDigit(s[1])
                  /\ k = Len(s) \/ IsDigit(s[k + 1]) # IsDigit(s[1])
       IN  <<SubSeq(s, 1, n)>> \o SplitDigits(SubSeq(s, n + 1, Len(s)))

\* The place of a token in the collation that localeCompare uses with
\* sensitivity "base": white space and punctuation come before the digits,
\* the digits before the letters, and case makes no difference.
CollationRank(t) ==
  CASE t = " " -> 1
    [] t = "_" -> 2
    [] t = "-" -> 3
    [] t = "." -> 4
    [] IsDigit(t) -> 10 + DigitValue(t)
    [] t \in {"abc", "ABC"} -> 101
    [] t \in {"arc", "Arc"} -> 102
    [] t = "bar" -> 103
    [] t \in {"ep01", "EP01", "Ep01"} -> 104
    [] t \in {"ep02", "EP02"} -> 105
    [] t = "foo" -> 106
    [] t = "mkv" -> 107
    [] t = "mp4" -> 108
    [] t \in {"one", "One"} -> 109
    [] t \in {"two", "Two"} -> 110
    [] t \in {"txt", "TXT", "Txt"} -> 111
    [] OTHER -> 200

\* p.localeCompare(q, undefined, {numeric: true, sensitivity: "base"}) for
\* two strings of which at most one holds digits: the first difference in
\* collation order decides, and a proper prefix comes first.
RECURSIVE LocaleCompare(_, _)
LocaleCompare(p, q) ==
  IF p = <<>> /\ q = <<>> THEN 0
  ELSE IF p = <<>> THEN 0 - 1
  ELSE IF q = <<>> THEN 1
  ELSE IF CollationRank(p[1]) < CollationRank(q[1]) THEN 0 - 1
  ELSE IF CollationRank(p[1]) > CollationRank(q[1]) THEN 1
  ELSE LocaleCompare(Tail(p), Tail(q))

\* naturalSort(a, b), from the part i on.
RECURSIVE NaturalSortFrom(_, _, _)
NaturalSortFrom(aParts, bParts, i) ==
  IF i > Len(aParts) /\ i > Len(bParts) THEN 0
  ELSE LET aPart == IF i <= Len(aParts) THEN aParts[i] ELSE <<>>
           bPart == IF i <= Len(bParts) THEN bParts[i] ELSE <<>>
       IN  IF AllDigits(aPart) /\ AllDigits(bPart)
             THEN IF ParseDigits(aPart) # ParseDigits(bPart)
                    THEN ParseDigits(aPart) - ParseDigits(bPart)
                    ELSE NaturalSortFrom(aParts, bParts, i + 1)
             ELSE IF LocaleCompare(aPart, bPart) # 0
                    THEN LocaleCompare(aPart, bPart)
                    ELSE NaturalSortFrom(aParts, bParts, i + 1)

\* naturalSort(a, b)
NaturalSortPlain(a, b) == LocaleCompare(a, b)
NaturalSort(a, b) == NaturalSortFrom(SplitDigits(a), SplitDigits(b), 1)

\* Array.prototype.sort((a, b) => naturalSort(a.name, b.name)) on the names:
\* a stable insertion sort.
RECURSIVE InsertSorted(_, _)
InsertSorted(sorted, x) ==
  IF sorted = <<>> THEN <<x>>
  ELSE IF NaturalSort(x, sorted[Len(sorted)]) < 0
    THEN InsertSorted(SubSeq(sorted, 1, Len(sorted) - 1), x) \o <<sorted[Len(sorted)]>>
    ELSE sorted \o <<x>>
RECURSIVE ArraySort(_)
ArraySort(names) ==
  IF names = <<>> THEN <<>>
  ELSE InsertSorted(ArraySort(SubSeq(names, 1, Len(names) - 1)), names[Len(names)])

\* VIDEO_EXTENSIONS and isVideoFile(name)
VideoExtensions ==
  {<<".", "mp4">>, <<".", "mkv">>, <<".", "webm">>, <<".", "avi">>, <<".", "mov">>}
IsVideoFile(name) == ToLowerCase(Extension(name)) \in VideoExtensions

\* parseEpisodeNumber(filename): the number the name starts with, or null.
ParseEpisodeNumber(filename) ==
  IF filename # <<>> /\ IsDigit(filename[1])
    THEN ParseDigits(SplitDigits(filename)[1])
    ELSE NoTime

\* name.toLowerCase().replace(/\s+/g, "-"): the id discoverArcs gives a
\* directory.
RECURSIVE ReplaceSpaces(_)
ReplaceSpaces(s) ==
  IF s = <<>> THEN <<>>
  ELSE IF s[1] = " "
    THEN IF Len(s) > 1 /\ s[2] = " " THEN ReplaceSpaces(Tail(s))
                                      ELSE <<"-">> \o ReplaceSpaces(Tail(s))
    ELSE <<s[1]>> \o ReplaceSpaces(Tail(s))
ArcIdOf(name) == ReplaceSpaces(ToLowerCase(name))

\* What `for await (... of handle.entries())` delivers of the entries S: the
\* entries in an order of the platform's choosing, all of them, or only some
\* when the enumeration raises an error on the way.
Enumerations(S) ==
  {s \in UNION {[1..n -> S] : n \in 0..Cardinality(S)} :
     \A i, j \in DOMAIN s : i # j => s[i] # s[j]}
EnumeratedAll(S, seen) == Len(seen) = Cardinality(S)

\* discoverArcs(rootHandle), given the entries the enumeration delivered
\* before it ended or failed.
DiscoverArcs(S, seen) ==
  [i \in DOMAIN seen |-> [id |-> ArcIdOf(ArraySort(seen)[i]), name |-> ArraySort(seen)[i]]]

\* discoverEpisodes(arcHandle), likewise.
DiscoverEpisodes(S, seen) ==
  LET sorted == ArraySort(SelectSeq(seen, IsVideoFile))
  IN  [i \in DOMAIN sorted |->
         [name |-> sorted[i], episodeNumber |-> ParseEpisodeNumber(sorted[i])]]

\* A call of discoverArcs on the root directory.
DiscoverArcsCall(seen) ==
  /\ seen \in Enumerations(DOMAIN fs)
  /\ ev' = [NoEvent EXCEPT !.op = "discoverArcs",
                            !.ok = EnumeratedAll(DOMAIN fs, seen),
                            !.listed = seen,
                            !.out = DiscoverArcs(DOMAIN fs, seen)]
  /\ UNCHANGED <<storeVars, now, fsVars, pageVars, playerVars, descError, settingsVars,
                 homeVars, written, sig>>

\* A call of discoverEpisodes on an arc directory.
DiscoverEpisodesCall(dir, seen) ==
  /\ dir \in DOMAIN fs
  /\ seen \in Enumerations(DOMAIN fs[dir])
  /\ ev' = [NoEvent EXCEPT !.op = "discoverEpisodes",
                            !.ok = EnumeratedAll(DOMAIN fs[dir], seen),
                            !.listed = seen,
                            !.out = DiscoverEpisodes(DOMAIN fs[dir], seen)]
  /\ UNCHANGED <<storeVars, now, fsVars, pageVars, playerVars, descError, settingsVars,
                 homeVars, written, sig>>

\* The names the scanned directories and files are drawn from: names that
\* start with a number, with and without a leading zero or more text, and
\* names that start with a letter or with punctuation.
ScanNames ==
  { <<"2">>, <<"0", "2">>, <<"1", "0">>, <<"2", "-", "foo">>, <<"1", "0", "-", "bar">>,
    <<"abc">>, <<"_", "abc">> }
ScanFiles == {n \o <<".", "mkv">> : n \in ScanNames} \cup {<<"abc", ".", "txt">>}

\* The sets of at most MaxEntries elements of S.
UpTo(S) == {T \in SUBSET S : Cardinality(T) <= MaxEntries}

\* A directory tree of the names above: empty directories, or one directory
\* with files.
InitScan ==
  /\ arcs = <<>>
  /\ episodes = <<>>
  /\ playback = <<>>
  /\ descriptions = <<>>
  /\ handleStatus = <<>>
  /\ fileHandles = <<>>
  /\ now = 0
  /\ fsRootOk = TRUE
  /\ \E D \in UpTo(ScanNames) \ {{}}, F \in UpTo(ScanFiles) :
       /\ F = {} \/ Cardinality(D) = 1
       /\ fs = [d \in D |-> [f \in F |-> VideoFile(1)]]
  /\ InitUi

NextScan ==
  \/ \E seen \in Enumerations(DOMAIN fs) : DiscoverArcsCall(seen)
  \/ \E dir \in DOMAIN fs : \E seen \in Enumerations(DOMAIN fs[dir]) :
       DiscoverEpisodesCall(dir, seen)

SpecScan == InitScan /\ [][NextScan]_vars

(* ------------------------------- home page ----------------------------- *)

\* saveFileHandle("root", rootHandle, "one-piece")
SaveFileHandle(store, id, name) ==
  StorePut(store, "id", [id |-> id, handle |-> "root", name |-> name, savedAt |-> now])

\* The arc and episode records handlePickDirectory builds.  No cover image
\* lies in the directories, so coverImage is undefined.
ArcMetadata(discoveredArc, known) ==
  [id |-> discoveredArc.id, name |-> discoveredArc.name,
   displayName |-> discoveredArc.name, order |-> Cardinality(known), createdAt |-> now]
EpisodeMetadata(arcId, discovered, i) ==
  [id |-> EpisodeId(arcId, i), arcId |-> arcId, fileName |-> discovered.name,
   displayName |-> IF discovered.episodeNumber > 0
                     THEN <<"Episode ", ToString(discovered.episodeNumber)>>
                     ELSE <<"Episode ", ToString(i)>>,
   duration |-> 0, order |-> i - 1, episodeNumber |-> discovered.episodeNumber,
   createdAt |-> now]

\* How extractVideoThumbnail(episodeFile) ends when it settles: it resolves
\* with the image, which a FileReader then reads; or it rejects, or resolves
\* with no image so that readAsDataURL throws.  It may also never settle,
\* and then the handler takes no further step.
ThumbnailOutcomes == {"captured", "rejected"}

\* Whether the arcs state the handler closed over holds the arc.
ExistingArc(known, arcId) == \E a \in known : a.id = arcId

\* The home page is opened: its state is fresh, initDB has resolved and the
\* button is enabled, and loadArcs is waiting for getArcs.
HomeMount ==
  /\ home = "closed"
  /\ ~alive
  /\ home' = "mounting"
  /\ homeArcs' = {}
  /\ ev' = NoEvent
  /\ UNCHANGED <<storeVars, now, fsVars, pageVars, playerVars, descError, settingsVars,
                 readers, run, ranFull, written, sig>>

\* loadArcs of the mount effect: getArcs resolves and setArcs runs.
LoadArcs ==
  /\ home = "mounting"
  /\ home' = "ready"
  /\ homeArcs' = StoreAll(arcs)
  /\ ev' = NoEvent
  /\ UNCHANGED <<storeVars, now, fsVars, pageVars, playerVars, descError, settingsVars,
                 readers, run, ranFull, written, sig>>

\* The document of the home page is closed: the handler and the FileReaders
\* at work go with it.
HomeClose ==
  /\ home # "closed"
  /\ home' = "closed"
  /\ homeArcs' = {}
  /\ readers' = {}
  /\ run' = Null
  /\ ev' = NoEvent
  /\ UNCHANGED <<storeVars, now, fsVars, pageVars, playerVars, descError, settingsVars,
                 ranFull, written, sig>>

\* The field skipped of a run is history: the directories of the arcs the
\* run passed over as known.
\* handlePickDirectory() up to the loop: the button is enabled while no run
\* is loading; the user picks the root directory, which grants access anew;
\* the handle is saved and discoverArcs runs.  known is the arcs state the
\* handler closed over.
HandlePickDirectory(seenDirs) ==
  /\ home \in {"mounting", "ready"}
  /\ run = Null
  /\ seenDirs \in Enumerations(DOMAIN fs)
  /\ fileHandles' = SaveFileHandle(fileHandles, <<"root">>, <<"one-piece">>)
  /\ fsRootOk' = TRUE
  /\ run' = [known |-> homeArcs, arcsLeft |-> DiscoverArcs(DOMAIN fs, seenDirs),
             arcId |-> <<>>, found |-> <<>>, i |-> 1,
             full |-> EnumeratedAll(DOMAIN fs, seenDirs), skipped |-> <<>>]
  /\ ev' = [NoEvent EXCEPT !.op = "pick"]
  /\ UNCHANGED <<arcs, episodes, playback, descriptions, handleStatus, now, fs, pageVars,
                 playerVars, descError, settingsVars, home, homeArcs, readers, ranFull,
                 written, sig>>

\* The entries an enumeration of the arc's directory can deliver: none when
\* the directory is gone, where entries() throws at once.
DirectoryEntries(name) == IF name \in DOMAIN fs THEN DOMAIN fs[name] ELSE {}

\* The next discovered arc: skipped when the arcs state holds it; otherwise
\* its record is saved and discoverEpisodes runs on its directory.
PickArc(seenFiles) ==
  /\ run # Null
  /\ run.i > Len(run.found)
  /\ run.arcsLeft # <<>>
  /\ LET discoveredArc == Head(run.arcsLeft) IN
     IF ExistingArc(run.known, discoveredArc.id)
       THEN /\ seenFiles = <<>>
            /\ run' = [run EXCEPT !.arcsLeft = Tail(@),
                                   !.skipped = Append(@, discoveredArc.name)]
            /\ UNCHANGED arcs
       ELSE /\ seenFiles \in Enumerations(DirectoryEntries(discoveredArc.name))
            /\ arcs' = StorePut(arcs, ArcsKeyPath, ArcMetadata(discoveredArc, run.known))
            /\ run' = [run EXCEPT
                         !.arcsLeft = Tail(@),
                         !.arcId = discoveredArc.id,
                         !.found = DiscoverEpisodes(DirectoryEntries(discoveredArc.name),
                                                    seenFiles),
                         !.i = 1,
                         !.full = /\ @
                                  /\ discoveredArc.name \in DOMAIN fs
                                  /\ EnumeratedAll(DirectoryEntries(discoveredArc.name),
                                                   seenFiles)]
  /\ ev' = [NoEvent EXCEPT !.op = "pick"]
  /\ UNCHANGED <<episodes, playback, descriptions, handleStatus, fileHandles, now, fsVars,
                 pageVars, playerVars, descError, settingsVars, home, homeArcs, readers,
                 ranFull, written, sig>>

\* The next episode of the arc: its record is built and the thumbnail
\* extraction settles.  With an image, the record is left to the FileReader's
\* onload; otherwise the catch saves it.
PickEpisode(outcome) ==
  /\ run # Null
  /\ run.i <= Len(run.found)
  /\ LET meta == EpisodeMetadata(run.arcId, run.found[run.i], run.i) IN
     IF outcome = "captured"
       THEN readers' = readers \cup {meta} /\ UNCHANGED episodes
       ELSE episodes' = StorePut(episodes, EpisodesKeyPath, meta) /\ UNCHANGED readers
  /\ run' = [run EXCEPT !.i = @ + 1]
  /\ ev' = [NoEvent EXCEPT !.op = "pick"]
  /\ UNCHANGED <<arcs, playback, descriptions, handleStatus, fileHandles, now, fsVars,
                 pageVars, playerVars, descError, settingsVars, home, homeArcs, ranFull,
                 written, sig>>

\* The end of the loop: loadArcs refreshes the arcs state, and the finally
\* block ends the loading.
PickFinish ==
  /\ run # Null
  /\ run.i > Len(run.found)
  /\ run.arcsLeft = <<>>
  /\ homeArcs' = StoreAll(arcs)
  /\ run' = Null
  /\ ranFull' = (ranFull \/ run.full)
  /\ ev' = [NoEvent EXCEPT !.op = "pick", !.out = run.skipped]
  /\ UNCHANGED <<storeVars, now, fsVars, pageVars, playerVars, descError, settingsVars,
                 home, readers, written, sig>>

\* reader.onload of a thumbnail's FileReader: the episode is saved with it.
ReaderLoads(meta) ==
  /\ meta \in readers
  /\ readers' = readers \ {meta}
  /\ episodes' = StorePut(episodes, EpisodesKeyPath,
                          [f \in (DOMAIN meta) \cup {"thumbnail"} |->
                             IF f = "thumbnail" THEN "data:image/jpeg" ELSE meta[f]])
  /\ ev' = [NoEvent EXCEPT !.op = "thumbnail", !.ok = TRUE, !.out = <<meta>>]
  /\ UNCHANGED <<arcs, playback, descriptions, handleStatus, fileHandles, now, fsVars,
                 pageVars, playerVars, descError, settingsVars, home, homeArcs, run, ranFull,
                 written, sig>>

\* The FileReader cannot read the image: it fires "error", for which the
\* handler registered nothing.
ReaderFails(meta) ==
  /\ meta \in readers
  /\ readers' = readers \ {meta}
  /\ ev' = [NoEvent EXCEPT !.op = "thumbnail", !.ok = FALSE, !.out = <<meta>>]
  /\ UNCHANGED <<storeVars, now, fsVars, pageVars, playerVars, descError, settingsVars,
                 home, homeArcs, run, ranFull, written, sig>>

\* A root directory with two arc directories, one of them empty, nothing
\* discovered yet.
Arc2Name == <<"Arc", " ", "Two">>
InitDiscovery ==
  /\ arcs = <<>>
  /\ episodes = <<>>
  /\ playback = <<>>
  /\ descriptions = <<>>
  /\ handleStatus = <<>>
  /\ fileHandles = <<>>
  /\ now = 0
  /\ fsRootOk = TRUE
  /\ fs = (ArcName :> ((File1 :> VideoFile(1)) @@ (File2 :> VideoFile(1))))
          @@ (Arc2Name :> <<>>)
  /\ InitUi

\* The clock's ticks within one run of the handler are not told apart.
NextDiscovery ==
  \/ HomeMount
  \/ LoadArcs
  \/ HomeClose
  \/ \E seenDirs \in Enumerations(DOMAIN fs) : HandlePickDirectory(seenDirs)
  \/ \E seenFiles \in Enumerations({File1, File2}) : PickArc(seenFiles)
  \/ \E outcome \in ThumbnailOutcomes : PickEpisode(outcome)
  \/ PickFinish
  \/ \E meta \in readers : ReaderLoads(meta)
  \/ \E meta \in readers : ReaderFails(meta)
  \/ (run = Null /\ readers = {} /\ AdvanceClock)

SpecDiscovery == InitDiscovery /\ [][NextDiscovery]_vars

\* The library after an earlier run registered the arc with its one episode;
\* a second video file has been added to the arc's directory since.
InitRescan ==
  /\ arcs = (ArcId :> ArcRecord(ArcName, 0, 0))
  /\ episodes = (Episode1.id :> Episode1)
  /\ playback = <<>>
  /\ descriptions = <<>>
  /\ handleStatus = <<>>
  /\ fileHandles = (<<"root">> :> RootHandle)
  /\ now = 0
  /\ fsRootOk = TRUE
  /\ fs = (ArcName :> ((File1 :> VideoFile(1)) @@ (File2 :> VideoFile(1))))
  /\ InitUi

SpecRescan == InitRescan /\ [][NextDiscovery]_vars

\* A root directory with two directories whose names differ in a run of
\* white space only, nothing discovered yet.
ArcNameSpaced == <<"Arc", " ", " ", "One">>
InitCollide ==
  /\ arcs = <<>>
  /\ episodes = <<>>
  /\ playback = <<>>
  /\ descriptions = <<>>
  /\ handleStatus = <<>>
  /\ fileHandles = <<>>
  /\ now = 0
  /\ fsRootOk = TRUE
  /\ fs = (ArcNameSpaced :> ((File1 :> VideoFile(1)) @@ (File2 :> VideoFile(1))))
          @@ (ArcName :> <<>>)
  /\ InitUi

SpecCollide == InitCollide /\ [][NextDiscovery]_vars

(* ------------------------------ a session ------------------------------ *)

\* A route whose arc has no record in the store: /player?arc=gone.
GoneSlug == <<"gone">>

\* The player page is closed while it shows no video (a failed load): no
\* video element, so none of its handlers runs.
LeavePlayer ==
  /\ alive
  /\ ~PlayerMounted
  /\ alive' = FALSE
  /\ saveTimeoutRef' = Null
  /\ sig' = Null
  /\ ev' = NoEvent
  /\ UNCHANGED <<storeVars, now, fsVars, arcSlug, episodeIndex, currentEpisode, stableId,
                 resumeTime, description, arcHandle, handleError, videoUrl, playerVars,
                 descError, settingsVars, homeVars, written>>

\* The browser is restarted or the permission is revoked: calls on the stored
\* root handle throw from now on.
RevokeAccess ==
  /\ fsRootOk
  /\ fsRootOk' = FALSE
  /\ ev' = NoEvent
  /\ UNCHANGED <<storeVars, now, fs, pageVars, playerVars, descError, settingsVars, homeVars,
                 written, sig>>

\* An arc's directory is deleted or renamed on disk; access to the root
\* directory stays as it is.
RemoveDirectory(name) ==
  /\ name \in DOMAIN fs
  /\ fs' = [d \in (DOMAIN fs) \ {name} |-> fs[d]]
  /\ ev' = NoEvent
  /\ UNCHANGED <<storeVars, now, fsRootOk, pageVars, playerVars, descError, settingsVars,
                 homeVars, written, sig>>

\* The discovered library; the second episode's file is gone from disk.
InitSession ==
  /\ InitLibrary
  /\ fs = (ArcName :> (File1 :> VideoFile(1)))
  /\ InitUi

\* One document at a time: the home page or the player page.
NextSession ==
  \/ \E slug \in {ArcId, GoneSlug}, idx \in RouteIndexes :
       home = "closed" /\ MountPlayer(slug, idx)
  \/ BeforeUnload
  \/ LeavePlayer
  \/ RevokeAccess
  \/ RemoveDirectory(ArcName)
  \/ HomeMount
  \/ LoadArcs
  \/ HomeClose
  \/ \E seenDirs \in Enumerations(DOMAIN fs) : HandlePickDirectory(seenDirs)
  \/ \E seenFiles \in Enumerations({File1}) : PickArc(seenFiles)
  \/ \E outcome \in ThumbnailOutcomes : PickEpisode(outcome)
  \/ PickFinish
  \/ \E meta \in readers : ReaderLoads(meta)
  \/ \E meta \in readers : ReaderFails(meta)

SpecSession == InitSession /\ [][NextSession]_vars

(* ------------------------------- the store ----------------------------- *)

\* The index "by-arc" of the episodes store that misses every record.
GetAllFromIndexByNothing(store, arcId) == {}
\* getAllFromIndex("episodes", "by-arc", arcId): the keys of the records whose
\* arcId is the given one.
GetAllFromIndexByArc(store, arcId) == {k \in DOMAIN store : store[k].arcId = arcId}

\* deleteArc(id): the arc's record is deleted, then every episode the index
\* lists for the arc.
DeleteArc(id) ==
  /\ \E eps \in {GetAllFromIndexByArc(episodes, id)} :
       /\ arcs' = StoreDelete(arcs, id)
       /\ episodes' = [k \in (DOMAIN episodes) \ eps |-> episodes[k]]
       /\ ev' = [NoEvent EXCEPT !.op = "deleteArc", !.out = <<id>>, !.listed = SetToSeq(eps)]
  /\ UNCHANGED <<playback, descriptions, handleStatus, fileHandles, now, fsVars, pageVars,
                 playerVars, descError, settingsVars, homeVars, written, sig>>

\* The records the stores may hold: two arcs, their episodes, and an episode
\* whose arc has no record.
Arc2Id == ArcIdOf(Arc2Name)
StoreArcRecords ==
  {ArcRecord(ArcName, 0, 0),
   [ArcRecord(Arc2Name, 1, 0) EXCEPT !.id = Arc2Id, !.name = Arc2Name]}
StoreEpisodeRecords ==
  {Episode1, Episode2,
   [Episode1 EXCEPT !.id = EpisodeId(Arc2Id, 1), !.arcId = Arc2Id],
   [Episode1 EXCEPT !.id = EpisodeId(GoneSlug, 1), !.arcId = GoneSlug]}
\* The object store that holds the records, keyed by id.
StoreOf(recs) == [k \in {r.id : r \in recs} |-> CHOOSE r \in recs : r.id = k]

InitStore ==
  /\ \E A \in SUBSET StoreArcRecords, E \in SUBSET StoreEpisodeRecords :
       /\ arcs = StoreOf(A)
       /\ episodes = StoreOf(E)
  /\ playback = <<>>
  /\ descriptions = <<>>
  /\ handleStatus = <<>>
  /\ fileHandles = <<>>
  /\ now = 0
  /\ fsRootOk = TRUE
  /\ fs = <<>>
  /\ InitUi

NextStore == \E id \in {ArcId, Arc2Id, GoneSlug} : DeleteArc(id)

SpecStore == InitStore /\ [][NextStore]_vars

(* --------------------------- two arcs in the player -------------------- *)

\* The library of two arcs with one episode each, both files named alike;
\* the first arc's episode has a sidecar on disk.
InitPlayer ==
  /\ arcs = StoreOf(StoreArcRecords)
  /\ episodes = StoreOf({Episode1, [Episode1 EXCEPT !.id = EpisodeId(Arc2Id, 1),
                                                    !.arcId = Arc2Id]})
  /\ playback = <<>>
  /\ descriptions = <<>>
  /\ handleStatus = <<>>
  /\ fileHandles = (<<"root">> :> RootHandle)
  /\ now = 0
  /\ fsRootOk = TRUE
  /\ fs = (ArcName :> ((File1 :> VideoFile(1))
                        @@ (Sidecar1 :> [mtime |-> 1, text |-> <<"first">>])))
          @@ (Arc2Name :> (File1 :> VideoFile(1)))
  /\ InitUi

\* The player page with its playlist links and the video's events; the
\* second arc's directory may go away.
NextPlayer ==
  \/ \E slug \in {ArcId, Arc2Id} : MountPlayer(slug, 0)
  \/ \E slug \in {ArcId, Arc2Id} : Navigate(slug, 0)
  \/ RemoveDirectory(Arc2Name)
  \/ \E t \in 0..MaxTime : VideoTimeUpdate(t)
  \/ PlayerTimerExpires
  \/ VideoPause
  \/ SaveTimerExpires
  \/ Tick
  \/ BeforeUnload
  \/ LeavePlayer

SpecPlayer == InitPlayer /\ [][NextPlayer]_vars

\* The player page with its playlist links and the description editor.
NextEditor ==
  \/ \E slug \in {ArcId, Arc2Id} : MountPlayer(slug, 0)
  \/ \E slug \in {ArcId, Arc2Id} : Navigate(slug, 0)
  \/ RemoveDirectory(Arc2Name)
  \/ BeforeUnload
  \/ LeavePlayer
  \/ \E text \in Texts, saveToFile \in BOOLEAN, writeOk \in BOOLEAN :
       HandleSave(text, saveToFile, writeOk)

SpecEditor == InitPlayer /\ [][NextEditor]_vars

(* ------------------------------ the playlist --------------------------- *)

\* The file of the n-th episode.
EpisodeFile(n) == <<"EP", ToString(n), ".", "mp4">>

\* The library after discovery of one arc directory with up to MaxEpisodes
\* video files.
InitPlaylist ==
  /\ \E count \in 1..MaxEpisodes :
       /\ episodes = StoreOf({EpisodeRecord(n, EpisodeFile(n), 0) : n \in 1..count})
       /\ fs = (ArcName :> [name \in {EpisodeFile(n) : n \in 1..count} |-> VideoFile(1)])
  /\ arcs = (ArcId :> ArcRecord(ArcName, 0, 0))
  /\ playback = <<>>
  /\ descriptions = <<>>
  /\ handleStatus = <<>>
  /\ fileHandles = (<<"root">> :> RootHandle)
  /\ now = 0
  /\ fsRootOk = TRUE
  /\ InitUi

\* A card of the arc page is clicked: router.push to the player with
\* episode=${episode.order}.
NextPlaylist ==
  \/ \E e \in StoreAll(episodes) : MountPlayer(e.arcId, e.order)
  \/ BeforeUnload

SpecPlaylist == InitPlaylist /\ [][NextPlaylist]_vars

(* -------------------------------- C11 ---------------------------------- *)

\* Whether the step from store to store2 is an upsert of the records recs by
\* the keyPath: every record of recs is held under its key, every other
\* key holds what it held, and no other key appeared.
Upserted(store, store2, keyPath, recs) ==
  LET keys == {recs[i][keyPath] : i \in DOMAIN recs}
  IN  /\ DOMAIN store2 = (DOMAIN store) \cup keys
      /\ \A i \in DOMAIN recs : store2[recs[i][keyPath]] = recs[i]
      /\ \A k \in (DOMAIN store) \ keys : store2[k] = store[k]

\* C11: import is a last-write-wins upsert by key.  After a successful import
\* of a bundle, each of the arcs, episodes and playback keyspaces holds every
\* record of the bundle's array under the record's key, and every stored
\* record whose key is not in the array is unchanged.
C11_ImportUpsertsByKey ==
  [][\A file \in UploadFiles :
       (ev'.op = "import" /\ ev'.ok /\ HandleImport(file)) =>
         /\ Upserted(arcs, arcs', ArcsKeyPath, JsonParse(file).arcs)
         /\ Upserted(episodes, episodes', EpisodesKeyPath, JsonParse(file).episodes)
         /\ Upserted(playback, playback', PlaybackKeyPath, JsonParse(file).playback)]_vars

(* ----------------------------- C12 - C14 ------------------------------ *)

\* The status recorded for the root handle; "none" when there is no record.
RootStatus ==
  IF <<"root">> \in DOMAIN handleStatus THEN handleStatus[<<"root">>].status ELSE "none"

C13_SuccessfulLoadRecordsRootOk ==
  (ev.op = "load" /\ ev.ok /\ RootStatus # "none") => RootStatus = "ok"

\* C14: a load for an arc without a record ends with an error of its own set.
C14_MissingArcIsReported ==
  (ev.op = "load" /\ GetArc(arcSlug) = Null) =>
    /\ handleError # Null
    /\ handleError \notin {ErrArcInfo, ErrExpired, ErrStale}
    /\ handleError.error # "Episode file not found"

(* -------------------------------- C21 ---------------------------------- *)

\* C21: a load whose verification fails while access to the root directory
\* is granted, the arc's directory being absent, leaves the handleStatus
\* records as they were and does not end with the capability-stale error.
C21_AbsentDirectoryIsNotStale ==
  [][(ev'.op = "load" /\ ev'.verify = "failed" /\ fsRootOk) =>
       (handleStatus' = handleStatus /\ handleError' # ErrStale)]_vars

(* -------------------------------- C22 ---------------------------------- *)

\* C22: an arc that a step of handlePickDirectory adds to the store gets
\* the number of arcs the store held until then as its order, so the arcs
\* of one run get increasing orders.
C22_OrderCountsKnownArcs ==
  [][ev'.op = "pick" =>
       \A id \in (DOMAIN arcs') \ (DOMAIN arcs) :
         arcs'[id].order = Cardinality(DOMAIN arcs)]_vars

(* ----------------------------- C23 - C26 ------------------------------ *)

\* C23: every playback record carries a stable id made of the arc and the
\* file name of the episode its episodeId names.
C23_ProgressIdMatchesEpisode ==
  \A k \in DOMAIN playback :
    /\ playback[k].episodeId \in DOMAIN episodes
    /\ LET e == episodes[playback[k].episodeId]
           parts == Split(playback[k].id, "::")
       IN  /\ Len(parts) = 3
           /\ parts[1] = e.arcId
           /\ parts[2] = e.fileName

\* C24: a pending progress write that is not yet due is never replaced by
\* the write of another stable id.
C24_PendingWriteKeptAcrossEpisodes ==
  [][(saveTimeoutRef # Null /\ saveTimeoutRef.left > 0 /\ saveTimeoutRef' # Null) =>
       saveTimeoutRef'.id = saveTimeoutRef.id]_vars

\* C26: a description save that writes the sidecar writes it to the
\* directory of the current episode's arc.
C26_SidecarWrittenToEpisodeDirectory ==
  (ev.op = "save" /\ ev.writeTried) => arcHandle = arcs[currentEpisode.arcId].name

(* -------------------------------- C25 ---------------------------------- *)

\* C25: the episode a load makes current is the one whose order is the
\* episode index of the route.
C25_IndexSelectsEpisodeOfThatOrder ==
  (ev.op = "load" /\ currentEpisode # Null) => currentEpisode.order = episodeIndex

(* -------------------------------- C27 ---------------------------------- *)

\* C27: every episode record in the store names, by its arcId, an arc
\* record that is in the store.
C27_EpisodesBelongToStoredArcs ==
  \A k \in DOMAIN episodes :
    HasKey(episodes[k], "arcId") /\ episodes[k].arcId \in DOMAIN arcs

(* -------------------------------- C28 ---------------------------------- *)

\* C28: when a run of handlePickDirectory has finished, every video file in
\* the directory of an arc the run found registered has an episode record.
C28_KnownArcsAreRescanned ==
  (ev.op = "pick" /\ run = Null) =>
    \A i \in DOMAIN ev.out :
      \A f \in DirectoryEntries(ev.out[i]) :
        IsVideoFile(f) =>
          \E k \in DOMAIN episodes :
            episodes[k].arcId = ArcIdOf(ev.out[i]) /\ episodes[k].fileName = f

(* -------------------------------- C29 ---------------------------------- *)

\* C29: no step gives an arc record another directory's name, and every
\* episode record's file is in the directory its arc record names.
C29_DirectoriesKeptApart ==
  [][/\ \A id \in (DOMAIN arcs) \cap (DOMAIN arcs') : arcs'[id].name = arcs[id].name
     /\ \A k \in DOMAIN episodes' :
          /\ episodes'[k].arcId \in DOMAIN arcs'
          /\ episodes'[k].fileName \in DirectoryEntries(arcs'[episodes'[k].arcId].name)]_vars

(* -------------------------------- C15 ---------------------------------- *)

\* C15: once a run of handlePickDirectory that enumerated the whole tree has
\* finished, no step of a later run against the unchanged tree writes an
\* arc or episode record, so that every record keeps its order and createdAt.
C15_SecondRunWritesNothing ==
  [][(ev'.op = "pick" /\ ranFull) => (arcs' = arcs /\ episodes' = episodes)]_vars

(* -------------------------------- C19 ---------------------------------- *)

\* C19: whatever becomes of an episode's thumbnail, once its FileReader is
\* done the episode's record is in the store.
C19_EpisodePersistedWhateverThumbnail ==
  ev.op = "thumbnail" => ev.out[1].id \in DOMAIN episodes

(* ----------------------------- C16 - C18 ------------------------------ *)

\* Whether the name starts with a run of digits, and the run's value.
StartsWithDigits(name) == name # <<>> /\ IsDigit(name[1])
LeadingNumber(name) == ParseDigits(SplitDigits(name)[1])

\* The names in the directory tree.
TreeNames == (DOMAIN fs) \cup UNION {DOMAIN fs[d] : d \in DOMAIN fs}

\* C16: natural sort, numeric case.  For two names that both start with a
\* run of digits, of values m < n, naturalSort(a, b) < 0 and
\* naturalSort(b, a) > 0, whatever follows the digits.
C16_NaturalSortNumeric ==
  \A a, b \in TreeNames :
    (StartsWithDigits(a) /\ StartsWithDigits(b) /\ LeadingNumber(a) < LeadingNumber(b))
      => (NaturalSort(a, b) < 0 /\ NaturalSort(b, a) > 0)

\* discoverEpisodes has put "2-foo.mkv" before "10-bar.mkv", which the
\* directory delivered in the other order.
C16_Witness ==
  /\ ev.op = "discoverEpisodes"
  /\ ev.listed = << <<"1", "0", "-", "bar", ".", "mkv">>, <<"2", "-", "foo", ".", "mkv">> >>
  /\ Len(ev.out) = 2
  /\ ev.out[1].name = <<"2", "-", "foo", ".", "mkv">>
  /\ ev.out[2].name = <<"1", "0", "-", "bar", ".", "mkv">>

\* C17: natural sort, mixed case.  In the list discoverArcs or
\* discoverEpisodes returns, a name that starts with a run of digits is never
\* behind a name that does not.
C17_NumberedNamesFirst ==
  ev.op \in {"discoverArcs", "discoverEpisodes"} =>
    \A i, j \in DOMAIN ev.out :
      (i < j /\ StartsWithDigits(ev.out[j].name)) => StartsWithDigits(ev.out[i].name)

\* C18: scanner failure policy.  When the enumeration of the directory raised
\* an error, discoverArcs and discoverEpisodes return the empty list.
C18_EnumerationErrorYieldsEmpty ==
  (ev.op \in {"discoverArcs", "discoverEpisodes"} /\ ~ev.ok) => ev.out = <<>>

(* -------------------------------- C20 ---------------------------------- *)

\* C20: deleteArc(id) leaves no arc with that id and no episode whose arcId
\* is id, adds nothing, and leaves every other arc and every episode of
\* another arc as it was.
C20_DeleteArcCascades ==
  [][ev'.op = "deleteArc" =>
       LET id == ev'.out[1] IN
         /\ id \notin DOMAIN arcs'
         /\ \A k \in DOMAIN episodes' : episodes'[k].arcId # id
         /\ DOMAIN arcs' = (DOMAIN arcs) \ {id}
         /\ \A k \in DOMAIN arcs' : arcs'[k] = arcs[k]
         /\ DOMAIN episodes' = {k \in DOMAIN episodes : episodes[k].arcId # id}
         /\ \A k \in DOMAIN episodes' : episodes'[k] = episodes[k]]_vars

\* The arc deleted had both of its episodes in the store, and the other
\* arc and the other episodes are still there.
C20_Witness ==
  /\ ev.op = "deleteArc"
  /\ ev.out = <<ArcId>>
  /\ Len(ev.listed) = 2
  /\ DOMAIN arcs = {Arc2Id}
  /\ DOMAIN episodes = {EpisodeId(Arc2Id, 1), EpisodeId(GoneSlug, 1)}

(* -------------------------------- C30 ---------------------------------- *)

\* C30: the list discoverEpisodes returns is the one it returns for every
\* other order in which the same entries may be enumerated.
C30_OrderIndependentOfEnumeration ==
  ev.op = "discoverEpisodes" =>
    LET names == {ev.listed[i] : i \in DOMAIN ev.listed} IN
      \A seen \in Enumerations(names) :
        Len(seen) = Len(ev.listed) => DiscoverEpisodes(names, seen) = ev.out

====
